---- MODULE Spec2Model ----
(***************************************************************************)
(* SAMDEMO dashboard relay (src/dashboard/server.py).                      *)
(*                                                                         *)
(* One asyncio event loop runs one ws_handler coroutine per accepted       *)
(* connection and one data task (serial_reader, demo_data_generator or a   *)
(* no-op in WiFi mode).  A step of the model is the code a coroutine runs  *)
(* between two points where it can be suspended.                           *)
(***************************************************************************)
EXTENDS Integers, Sequences, FiniteSets, TLC

\* ---------------------------------------------------------------- bounds
MaxConns == 2          \* connections accepted during a run
MaxSteps == 2          \* cap on the demo generator's step counter t

Conns   == 1..MaxConns
Source  == 0           \* caller id of the data task; connections are 1..MaxConns
Callers == 0..MaxConns
\* Time values are told apart by who assigned them: RelayStamp stands for any
\* value time.time() returns in the relay, SourceStamp for a received_at value
\* a device put in its own record.
RelayStamp  == 1
SourceStamp == 100
Times   == {RelayStamp}

\* ------------------------------------------------------------- raw lines
\* A line is a sequence of tokens: " " is whitespace, "boot" is text that is
\* not JSON, every other token is the text of one JSON value.
JsonTokens == {"{hello,X}", "{temp}", "{status,rx}", "42"}

\* What a connection sends.
Lines ==
    { <<>>, <<" ">>, <<" ", "boot", " ">>,
      <<"{hello,X}">>, <<"{temp}">>, <<"{status,rx}">>, <<"42">> }

\* What ser.readline() returns (empty on a read timeout).
SerialLines == { <<>>, <<" ">>, <<" ", "boot", " ">>, <<"{temp}">> }

\* A dict with the keys the program reads or writes; `keys` is the set of
\* keys present, the other fields hold the values of the present keys.
EmptyDict ==
    [keys |-> {}, type |-> "", device |-> "", message |-> <<>>, temp |-> "",
     received_at |-> 0, timestamp |-> 0, demo |-> FALSE]

\* The JSON value each token denotes.
JsonValue(tok) ==
    CASE tok = "{hello,X}" ->
           [EmptyDict EXCEPT !.keys = {"type", "device"}, !.type = "hello", !.device = "X"]
      [] tok = "{temp}" ->
           [EmptyDict EXCEPT !.keys = {"temp"}, !.temp = "21.5"]
      [] tok = "{status,rx}" ->
           [EmptyDict EXCEPT !.keys = {"type", "temp", "received_at"},
                             !.type = "status", !.temp = "21.5",
                             !.received_at = SourceStamp]
      [] OTHER -> EmptyDict

IsDictToken(tok) == tok \in JsonTokens \ {"42"}

RECURSIVE lstrip(_)
lstrip(s) == IF s # <<>> /\ Head(s) = " " THEN lstrip(Tail(s)) ELSE s

RECURSIVE rstrip(_)
rstrip(s) ==
    IF s # <<>> /\ s[Len(s)] = " " THEN rstrip(SubSeq(s, 1, Len(s) - 1)) ELSE s

\* str.strip()
strip(s) == rstrip(lstrip(s))

\* json.loads: whitespace around the value is skipped; anything but exactly one
\* JSON value raises JSONDecodeError.
json_loads(s) ==
    LET b == strip(s) IN
    IF Len(b) = 1 /\ b[1] \in JsonTokens
    THEN [ok |-> TRUE, isdict |-> IsDictToken(b[1]), value |-> JsonValue(b[1])]
    ELSE [ok |-> FALSE, isdict |-> FALSE, value |-> EmptyDict]

\* json.dumps: the wire text of a record.
json_dumps(d) == [json |-> d]

VARIABLES
    mode,               \* args: "wifi" | "serial" | "demo"
    SERIAL_AVAILABLE,   \* whether `import serial` succeeded
    browser_clients,    \* module-level set of consumer connections
    device_clients,     \* module-level set of producer connections
    link,               \* per connection: "none" | "open" | "closed"
    pc,                 \* per connection: position of its ws_handler
    is_device,          \* per connection: ws_handler's local is_device
    first_msg,          \* per connection: first_msg while the ack send is pending
    fault,              \* per connection: how its handler ended
    received,           \* per connection: wire texts its peer was sent
    srcpc,              \* position of the data task
    t,                  \* demo_data_generator's step counter
    fallbacks,          \* times serial_reader handed over to demo_data_generator
    calls,              \* per caller: its calls of broadcast_to_browsers
    ignored             \* per connection: a message of it was read and dropped

vars == <<mode, SERIAL_AVAILABLE, browser_clients, device_clients, link, pc,
          is_device, first_msg, fault, received, srcpc, t, fallbacks, calls,
          ignored>>

connVars == <<browser_clients, device_clients, link, pc, is_device, first_msg,
              fault, received, ignored>>
srcVars  == <<srcpc, t, fallbacks>>
cfgVars  == <<mode, SERIAL_AVAILABLE>>

\* ------------------------------------------------- broadcast_to_browsers
\* The outcome of a call: whether broadcast_to_browsers was entered, with which
\* record, the exception it ended with ("none" when it returned), the
\* connections its send reached and the ones line 73 removes.
NoCall ==
    [called |-> FALSE, data |-> EmptyDict, exc |-> "none", sent_to |-> {},
     removed |-> {}]

Raise(e) == [NoCall EXCEPT !.exc = e]

\* Names the body of broadcast_to_browsers binds: `message` (line 66),
\* `disconnected` (67), the loop target `client` (68) and, by the augmented
\* assignment `browser_clients -= disconnected` (73), `browser_clients`.
BroadcastAssigned == {"message", "disconnected", "client", "browser_clients"}

\* Names the function declares global: there is no global statement.
BroadcastGlobals == {}

\* Python's scoping rule: a name a function body assigns is local to the whole
\* body unless declared global, and reading it before it is bound raises
\* UnboundLocalError.
IsLocalName(n) == n \in BroadcastAssigned \ BroadcastGlobals

\* broadcast_to_browsers(data) with the registry `reg` as it stands at the
\* call.  Line 64 reads `browser_clients`, a local name nothing has bound yet,
\* so every call ends there; lines 66-73 (the fan-out over the registry and the
\* removal of the recipients whose send raised) follow for a global name.
broadcast_to_browsers(data, reg) ==
    IF IsLocalName("browser_clients")
    THEN [called |-> TRUE, data |-> data, exc |-> "UnboundLocalError",
          sent_to |-> {}, removed |-> {}]
    ELSE IF reg = {}
    THEN [called |-> TRUE, data |-> data, exc |-> "none", sent_to |-> {},
          removed |-> {}]
    ELSE [called |-> TRUE, data |-> data, exc |-> "none",
          sent_to |-> {c \in reg : link[c] = "open"},
          removed |-> {c \in reg : link[c] # "open"}]

\* client.send(message) for the recipients a call reached.
Deliver(rcv, r) ==
    [c \in Conns |-> IF c \in r.sent_to THEN Append(rcv[c], json_dumps(r.data))
                     ELSE rcv[c]]

\* History: the calls of broadcast_to_browsers each caller made.
Log(cl, who, r) ==
    IF r.called
    THEN [cl EXCEPT ![who] = Append(@, [data |-> r.data, exc |-> r.exc,
                                        sent_to |-> r.sent_to])]
    ELSE cl

\* ------------------------------------------------------- process_message
\* process_message without the `if not raw: return` of lines 151-152.
process_message_NoEmptyCheck(raw, now, reg) ==
    LET s == strip(raw)
        j == json_loads(s)
    IN  IF j.ok
        THEN IF ~j.isdict
             THEN Raise("TypeError")
             ELSE broadcast_to_browsers(
                      [j.value EXCEPT !.keys = @ \cup {"type", "received_at"},
                                      !.type = IF "type" \in j.value.keys
                                               THEN @ ELSE "sensor",
                                      !.received_at = IF "received_at" \in j.value.keys
                                                      THEN @ ELSE now], reg)
        ELSE broadcast_to_browsers(
                 [EmptyDict EXCEPT !.keys = {"type", "message", "timestamp"},
                                   !.type = "log", !.message = s,
                                   !.timestamp = now], reg)

\* process_message without the `data["type"] = "sensor"` of lines 159-160.
process_message_NoTypeDefault(raw, now, reg) ==
    LET s == strip(raw) IN
    IF s = <<>>
    THEN NoCall
    ELSE LET j == json_loads(s) IN
         IF j.ok
         THEN IF ~j.isdict
              THEN Raise("TypeError")
              ELSE broadcast_to_browsers(
                       IF "received_at" \notin j.value.keys
                       THEN [j.value EXCEPT !.keys = @ \cup {"received_at"},
                                            !.received_at = now]
                       ELSE j.value, reg)
         ELSE broadcast_to_browsers(
                  [EmptyDict EXCEPT !.keys = {"type", "message", "timestamp"},
                                    !.type = "log", !.message = s,
                                    !.timestamp = now], reg)

process_message(raw, now, reg) ==
    LET s == strip(raw) IN
    IF s = <<>>
    THEN NoCall
    ELSE LET j == json_loads(s) IN
         IF j.ok
         THEN IF ~j.isdict
              THEN Raise("TypeError")      \* `"type" not in data` on a non-container
              ELSE LET d1 == IF "type" \notin j.value.keys
                             THEN [j.value EXCEPT !.keys = @ \cup {"type"},
                                                  !.type = "sensor"]
                             ELSE j.value
                       d2 == IF "received_at" \notin d1.keys
                             THEN [d1 EXCEPT !.keys = @ \cup {"received_at"},
                                             !.received_at = now]
                             ELSE d1
                   IN  broadcast_to_browsers(d2, reg)
         ELSE broadcast_to_browsers(
                  [EmptyDict EXCEPT !.keys = {"type", "message", "timestamp"},
                                    !.type = "log", !.message = s,
                                    !.timestamp = now], reg)

\* The records ws_handler builds itself.
ConnectedAck(now) ==
    [EmptyDict EXCEPT !.keys = {"type", "message", "timestamp"},
                      !.type = "connected", !.message = <<"welcome">>,
                      !.timestamp = now]

DeviceConnected(dev, now) ==
    [EmptyDict EXCEPT !.keys = {"type", "device", "timestamp"},
                      !.type = "device_connected", !.device = dev,
                      !.timestamp = now]

\* ------------------------------------------------------------- ws_handler
Init ==
    /\ mode \in {"wifi", "serial", "demo"}
    /\ SERIAL_AVAILABLE \in BOOLEAN
    /\ mode = "serial" \/ SERIAL_AVAILABLE     \* only serial_reader reads it
    /\ browser_clients = {}
    /\ device_clients = {}
    /\ link = [c \in Conns |-> "none"]
    /\ pc = [c \in Conns |-> "new"]
    /\ is_device = [c \in Conns |-> FALSE]
    /\ first_msg = [c \in Conns |-> <<>>]
    /\ fault = [c \in Conns |-> "none"]
    /\ received = [c \in Conns |-> <<>>]
    /\ srcpc = "start"
    /\ t = 0
    /\ fallbacks = 0
    /\ calls = [w \in Callers |-> <<>>]
    /\ ignored = [c \in Conns |-> FALSE]

\* serve() accepts a connection and starts ws_handler on it; the handler waits
\* in wait_for(websocket.recv(), 2.0).  Connections are numbered as accepted.
Accept(c) ==
    /\ pc[c] = "new"
    /\ \A d \in Conns : d < c => pc[d] # "new"
    /\ pc' = [pc EXCEPT ![c] = "wait_first"]
    /\ link' = [link EXCEPT ![c] = "open"]
    /\ UNCHANGED <<browser_clients, device_clients, is_device, first_msg, fault,
                   received, srcVars, cfgVars, calls, ignored>>

\* The peer goes away; the handler has not run since.
PeerClose(c) ==
    /\ link[c] = "open"
    /\ link' = [link EXCEPT ![c] = "closed"]
    /\ UNCHANGED <<browser_clients, device_clients, pc, is_device, first_msg,
                   fault, received, srcVars, cfgVars, calls, ignored>>

\* Conclude whose finally block leaves the connection in browser_clients.
Conclude_NoDiscard(c, bc, dc, isdev, rcv, r, nextpc, fm) ==
    LET ended == r.exc # "none"
        bc2   == bc \ r.removed
    IN  /\ browser_clients' = bc2
        /\ device_clients' = IF ended THEN dc \ {c} ELSE dc
        /\ is_device' = [is_device EXCEPT ![c] = isdev]
        /\ received' = Deliver(rcv, r)
        /\ pc' = [pc EXCEPT ![c] = IF ended THEN "done" ELSE nextpc]
        /\ link' = [link EXCEPT ![c] = IF ended THEN "closed" ELSE @]
        /\ fault' = [fault EXCEPT ![c] = IF ended THEN r.exc ELSE @]
        /\ first_msg' = [first_msg EXCEPT ![c] = IF ended THEN <<>> ELSE fm]
        /\ calls' = Log(calls, c, r)
        /\ UNCHANGED <<srcVars, cfgVars>>

\* The rest of a handler step once its sets and locals are `bc`, `dc`, `isdev`
\* and `rcv` and its last call ended as `r`: line 73 and the sends of a call
\* that returned, and, when an exception is on its way out, the except
\* clauses and the finally block (lines 139-146), after which serve() closes
\* the connection.  `nextpc` and `fm` are where the handler waits next.
Conclude(c, bc, dc, isdev, rcv, r, nextpc, fm) ==
    LET ended == r.exc # "none"
        bc2   == bc \ r.removed
    IN  /\ browser_clients' = IF ended THEN bc2 \ {c} ELSE bc2
        /\ device_clients' = IF ended THEN dc \ {c} ELSE dc
        /\ is_device' = [is_device EXCEPT ![c] = isdev]
        /\ received' = Deliver(rcv, r)
        /\ pc' = [pc EXCEPT ![c] = IF ended THEN "done" ELSE nextpc]
        /\ link' = [link EXCEPT ![c] = IF ended THEN "closed" ELSE @]
        /\ fault' = [fault EXCEPT ![c] = IF ended THEN r.exc ELSE @]
        /\ first_msg' = [first_msg EXCEPT ![c] = IF ended THEN <<>> ELSE fm]
        /\ calls' = Log(calls, c, r)
        /\ UNCHANGED <<srcVars, cfgVars>>

\* websocket.send(json.dumps(ack)) at lines 108 and 126.
SendAck(c, rcv, now) ==
    [rcv EXCEPT ![c] = Append(@, json_dumps(ConnectedAck(now)))]

\* FirstTimeout registering the browser without sending it the acknowledgement.
FirstTimeout_NoAck(c, now) ==
    /\ pc[c] = "wait_first"
    /\ link[c] = "open"
    /\ UNCHANGED ignored
    /\ Conclude(c, browser_clients \cup {c}, device_clients, is_device[c],
                received, NoCall, "loop", <<>>)

\* wait_for times out (lines 122-130): the connection is a browser.
FirstTimeout(c, now) ==
    /\ pc[c] = "wait_first"
    /\ link[c] = "open"
    /\ UNCHANGED ignored
    /\ Conclude(c, browser_clients \cup {c}, device_clients, is_device[c],
                SendAck(c, received, now), NoCall, "loop", <<>>)

\* FirstMessage registering a connection whose first message is not JSON in
\* browser_clients as well as in device_clients.
FirstMessage_BothSets(c, raw, now) ==
    /\ pc[c] = "wait_first"
    /\ UNCHANGED ignored
    /\ LET j == json_loads(raw) IN
       IF ~j.ok
       THEN Conclude(c, browser_clients \cup {c}, device_clients \cup {c}, TRUE,
                     received, process_message(raw, now, browser_clients),
                     "loop", <<>>)
       ELSE IF ~j.isdict
       THEN Conclude(c, browser_clients, device_clients, is_device[c], received,
                     Raise("AttributeError"), "loop", <<>>)
       ELSE IF j.value.type = "hello" /\ "device" \in j.value.keys
       THEN Conclude(c, browser_clients, device_clients \cup {c}, TRUE, received,
                     broadcast_to_browsers(DeviceConnected(j.value.device, now),
                                           browser_clients),
                     "loop", <<>>)
       ELSE IF link[c] = "open"
       THEN Conclude(c, browser_clients \cup {c}, device_clients, is_device[c],
                     SendAck(c, received, now), NoCall, "ack_first", raw)
       ELSE Conclude(c, browser_clients \cup {c}, device_clients, is_device[c],
                     received, Raise("ConnectionClosed"), "loop", <<>>)

\* A first message arrives within the timeout (lines 90-120).
FirstMessage(c, raw, now) ==
    /\ pc[c] = "wait_first"
    /\ UNCHANGED ignored
    /\ LET j == json_loads(raw) IN
       IF ~j.ok
       THEN \* lines 115-120: not JSON, the connection is a device
            Conclude(c, browser_clients, device_clients \cup {c}, TRUE, received,
                     process_message(raw, now, browser_clients), "loop", <<>>)
       ELSE IF ~j.isdict
       THEN \* line 93: data.get on a value that is no dict
            Conclude(c, browser_clients, device_clients, is_device[c], received,
                     Raise("AttributeError"), "loop", <<>>)
       ELSE IF j.value.type = "hello" /\ "device" \in j.value.keys
       THEN \* lines 94-103
            Conclude(c, browser_clients, device_clients \cup {c}, TRUE, received,
                     broadcast_to_browsers(DeviceConnected(j.value.device, now),
                                           browser_clients),
                     "loop", <<>>)
       ELSE IF link[c] = "open"
       THEN \* lines 106-112: registered, the ack is written, send may suspend
            Conclude(c, browser_clients \cup {c}, device_clients, is_device[c],
                     SendAck(c, received, now), NoCall, "ack_first", raw)
       ELSE \* line 108: send on a closed connection
            Conclude(c, browser_clients \cup {c}, device_clients, is_device[c],
                     received, Raise("ConnectionClosed"), "loop", <<>>)

\* Line 114: process_message(first_msg) once the ack's send has returned.
ProcessFirst(c, now) ==
    /\ pc[c] = "ack_first"
    /\ link[c] = "open"
    /\ UNCHANGED ignored
    /\ Conclude(c, browser_clients, device_clients, is_device[c], received,
                process_message(first_msg[c], now, browser_clients), "loop", <<>>)

\* LoopMessage classifying again when a browser sends the handshake later.
LoopMessage_Reclassify(c, raw, now) ==
    /\ pc[c] = "loop"
    /\ ignored' = [ignored EXCEPT ![c] = @ \/ ~is_device[c]]
    /\ LET j == json_loads(raw) IN
       IF /\ ~is_device[c] /\ j.ok /\ j.isdict
          /\ j.value.type = "hello" /\ "device" \in j.value.keys
       THEN Conclude(c, browser_clients \ {c}, device_clients \cup {c}, TRUE,
                     received, NoCall, "loop", <<>>)
       ELSE Conclude(c, browser_clients, device_clients, is_device[c], received,
                     IF is_device[c] THEN process_message(raw, now, browser_clients)
                     ELSE NoCall,
                     "loop", <<>>)

\* LoopMessage without the `if is_device` of line 134.
LoopMessage_AnyRole(c, raw, now) ==
    /\ pc[c] = "loop"
    /\ ignored' = [ignored EXCEPT ![c] = @ \/ ~is_device[c]]
    /\ Conclude(c, browser_clients, device_clients, is_device[c], received,
                process_message(raw, now, browser_clients), "loop", <<>>)

\* Lines 133-137: a later message; a browser's is read and dropped.
LoopMessage(c, raw, now) ==
    /\ pc[c] = "loop"
    /\ ignored' = [ignored EXCEPT ![c] = @ \/ ~is_device[c]]
    /\ Conclude(c, browser_clients, device_clients, is_device[c], received,
                IF is_device[c] THEN process_message(raw, now, browser_clients)
                ELSE NoCall,
                "loop", <<>>)

\* recv, send or the message iterator finds the connection closed.
HandlerClosed(c) ==
    /\ pc[c] \in {"wait_first", "ack_first", "loop"}
    /\ link[c] = "closed"
    /\ UNCHANGED ignored
    /\ Conclude(c, browser_clients, device_clients, is_device[c], received,
                Raise("ConnectionClosed"), "loop", <<>>)

\* -------------------------------------------------------------- data task
\* What a step of the data task does to the connections' side: line 73, the
\* sends of a call that returned, and the history.
SourceApply(r) ==
    /\ browser_clients' = browser_clients \ r.removed
    /\ received' = Deliver(received, r)
    /\ calls' = Log(calls, Source, r)
    /\ UNCHANGED <<device_clients, link, pc, is_device, first_msg, fault, cfgVars,
                   ignored>>

\* main() creates the data task (lines 264-271).
Main ==
    /\ srcpc = "start"
    /\ srcpc' = CASE mode = "wifi" -> "finished"        \* asyncio.sleep(0)
                  [] mode = "serial" -> "serial_reader"
                  [] OTHER -> "demo"
    /\ UNCHANGED <<connVars, cfgVars, t, fallbacks, calls>>

\* serial_reader up to its read loop (lines 179-189): without pyserial, or when
\* serial.Serial raises SerialException, it goes on as demo_data_generator.
SerialOpen(opened) ==
    /\ srcpc = "serial_reader"
    /\ IF SERIAL_AVAILABLE /\ opened
       THEN srcpc' = "serial_read" /\ fallbacks' = fallbacks
       ELSE srcpc' = "demo" /\ fallbacks' = fallbacks + 1
    /\ UNCHANGED <<connVars, cfgVars, t, calls>>

\* One turn of the read loop (lines 191-197): readline returned `raw`, which is
\* empty on a read timeout.
SerialRead(raw, now) ==
    /\ srcpc = "serial_read"
    /\ LET line == strip(raw)
           r    == IF raw = <<>> \/ line = <<>> THEN NoCall
                   ELSE process_message(line, now, browser_clients)
       IN  /\ SourceApply(r)
           /\ srcpc' = IF r.exc # "none" THEN "crashed" ELSE "serial_read"
    /\ UNCHANGED <<t, fallbacks>>

\* readline raises SerialException (lines 199-202).
SerialFault ==
    /\ srcpc = "serial_read"
    /\ srcpc' = "demo"
    /\ fallbacks' = fallbacks + 1
    /\ UNCHANGED <<connVars, cfgVars, t, calls>>

\* The synthetic record of lines 216-224 (temp stands for the three readings).
DemoRecord(now) ==
    [EmptyDict EXCEPT !.keys = {"type", "temp", "received_at", "demo"},
                      !.type = "sensor", !.temp = "25.0", !.received_at = now,
                      !.demo = TRUE]

\* One turn of demo_data_generator's loop (lines 211-232).
DemoStep(now) ==
    /\ srcpc = "demo"
    /\ t < MaxSteps
    /\ LET r == broadcast_to_browsers(DemoRecord(now), browser_clients)
       IN  /\ SourceApply(r)
           /\ IF r.exc # "none"
              THEN srcpc' = "crashed" /\ t' = t
              ELSE srcpc' = "demo" /\ t' = t + 1
    /\ UNCHANGED fallbacks

Next ==
    \/ \E c \in Conns : Accept(c)
    \/ \E c \in Conns : PeerClose(c)
    \/ \E c \in Conns, now \in Times : FirstTimeout(c, now)
    \/ \E c \in Conns, raw \in Lines, now \in Times : FirstMessage(c, raw, now)
    \/ \E c \in Conns, now \in Times : ProcessFirst(c, now)
    \/ \E c \in Conns, raw \in Lines, now \in Times : LoopMessage(c, raw, now)
    \/ \E c \in Conns : HandlerClosed(c)
    \/ Main
    \/ \E opened \in BOOLEAN : SerialOpen(opened)
    \/ \E raw \in SerialLines, now \in Times : SerialRead(raw, now)
    \/ SerialFault
    \/ \E now \in Times : DemoStep(now)

Spec == Init /\ [][Next]_vars

\* ------------------------------------------------------------ properties
Last(q) == q[Len(q)]

IsAck(w) == w.json.type = "connected"

\* Registered consumers whose link is open, resp. closed.
OpenConsumers   == {c \in browser_clients : link[c] = "open"}
ClosedConsumers == {c \in browser_clients : link[c] # "open"}

\* The step is a call of broadcast_to_browsers by caller w.
Broadcasts(w) == calls'[w] # calls[w]

\* The call of this step by w returned and reached every consumer that was
\* registered and open when it was made, with one wire text each.
FannedOut(w) ==
    /\ Last(calls'[w]).exc = "none"
    /\ \A b \in OpenConsumers :
          received'[b] = Append(received[b], json_dumps(Last(calls'[w]).data))

\* C1: after a register, a broadcast or a deregister operation the registry
\* holds no connection whose link is closed: a connection just registered is
\* open, a connection whose handler ended is not registered, and a broadcast
\* leaves no closed connection registered.  (browser_clients is a set, so no
\* connection is in it twice.)
C1_RegistryHoldsNoClosedLink ==
    [][/\ \A c \in Conns :
             (c \notin browser_clients /\ c \in browser_clients') => link'[c] = "open"
       /\ \A c \in Conns : pc'[c] = "done" => c \notin browser_clients'
       /\ (\E w \in Callers : Broadcasts(w)) =>
             \A c \in browser_clients' : link'[c] = "open"]_vars

\* C2: a fan-out pass completes without raising a fault to its caller, whatever
\* registrations and removals the handlers perform around it: no call of
\* broadcast_to_browsers ends in an exception.
C2_PassNeverRaises ==
    \A w \in Callers : \A i \in 1..Len(calls[w]) : calls[w][i].exc = "none"

\* C3: a broadcast made while a registered recipient's send fails (its link is
\* closed) still returns to its caller, reaches every other registered
\* consumer, and removes the failed recipients from the registry.
C3_SendFailureIsLocal ==
    [][\A w \in Callers :
          (Broadcasts(w) /\ ClosedConsumers # {}) =>
              /\ FannedOut(w)
              /\ \A b \in ClosedConsumers : b \notin browser_clients']_vars

\* C4: a connection classified as a browser by the timeout has been sent
\* exactly one "connected" acknowledgement, and it is the first thing it was
\* sent, whatever broadcasts ran meanwhile.
C4_AckOnceAndFirst ==
    \A c \in Conns :
        /\ \A i \in 1..Len(received[c]) : IsAck(received[c][i]) => i = 1
        /\ (pc[c] = "loop" /\ ~is_device[c]) =>
              (Len(received[c]) >= 1 /\ IsAck(received[c][1]))

\* A browser classified by the timeout, still connected, holds its
\* acknowledgement after the data task and another connection called
\* broadcast_to_browsers.
C4_Witness ==
    \E c \in Conns :
        /\ pc[c] = "loop" /\ ~is_device[c] /\ link[c] = "open"
        /\ c \in browser_clients
        /\ Len(received[c]) = 1
        /\ calls[Source] # <<>>
        /\ \E d \in Conns \ {c} : calls[d] # <<>>

\* The line is the producer handshake: a JSON object of type "hello" with a
\* device field.
IsHello(raw) ==
    LET j == json_loads(raw) IN
    j.ok /\ j.isdict /\ j.value.type = "hello" /\ "device" \in j.value.keys

\* C5: a connection whose first message is {"type":"hello","device":"X"} is
\* classified Producer (it is in device_clients and its handler goes on to its
\* receive loop) and triggers exactly one DeviceConnected broadcast, carrying
\* device X, that reaches every registered consumer.
C5_HelloMakesProducer ==
    [][\A c \in Conns, now \in Times :
          FirstMessage(c, <<"{hello,X}">>, now) =>
              /\ c \in device_clients' /\ is_device'[c] /\ pc'[c] = "loop"
              /\ Len(calls'[c]) = 1
              /\ calls'[c][1].data.type = "device_connected"
              /\ calls'[c][1].data.device = "X"
              /\ FannedOut(c)]_vars

\* C6: a connection whose first message is not the handshake, parseable or
\* not, is classified Consumer and sent the acknowledgement, and that first
\* message is decoded and broadcast.
C6_OtherFirstMessageMakesConsumer ==
    [][\A c \in Conns, now \in Times :
          /\ \A raw \in Lines :
                (FirstMessage(c, raw, now) /\ link[c] = "open" /\ ~IsHello(raw)) =>
                    /\ c \in browser_clients' /\ ~is_device'[c]
                    /\ received'[c] # <<>> /\ IsAck(Last(received'[c]))
          /\ ProcessFirst(c, now) =>
                /\ Broadcasts(c) /\ FannedOut(c)
                /\ c \in browser_clients']_vars

\* The record the claim expects process_message to hand to the broadcaster for
\* a non-empty line: the parsed record, of kind sensor unless it names its own,
\* or a log record carrying the line's text.
ExpectedKind(raw, d) ==
    LET j == json_loads(raw) IN
    IF j.ok
    THEN d.type = (IF "type" \in j.value.keys THEN j.value.type ELSE "sensor")
    ELSE d.type = "log" /\ d.message = strip(raw)

\* C7: decoding a non-empty line never raises to its caller and yields exactly
\* one Frame: the producer's handler and the serial reader go on with their
\* loops, and one record of the expected kind was handed to the broadcaster.
C7_DecodeNeverRaises ==
    [][\A raw \in Lines, now \in Times :
          /\ \A c \in Conns :
                (LoopMessage(c, raw, now) /\ is_device[c] /\ strip(raw) # <<>>) =>
                    /\ pc'[c] = "loop"
                    /\ Len(calls'[c]) = Len(calls[c]) + 1
                    /\ ExpectedKind(raw, Last(calls'[c]).data)
          /\ (raw \in SerialLines /\ SerialRead(raw, now) /\ strip(raw) # <<>>) =>
                /\ srcpc' = "serial_read"
                /\ Len(calls'[Source]) = Len(calls[Source]) + 1
                /\ ExpectedKind(raw, Last(calls'[Source]).data)]_vars

\* The empty and the whitespace-only lines.
BlankLines == {raw \in Lines \cup SerialLines : strip(raw) = <<>>}

C9_FramesDeliveredInOrder ==
    [][(Broadcasts(Source) /\ device_clients = {}) =>
          /\ Len(calls'[Source]) = Len(calls[Source]) + 1
          /\ \A b \in OpenConsumers :
                /\ b \in browser_clients'
                /\ received'[b] =
                      Append(received[b], json_dumps(Last(calls'[Source]).data))]_vars

\* C10: the serial source's terminal fault makes the relay fall back to the
\* demo source exactly once, which leaves the registry alone, and from then on
\* the demo source emits synthetic Frames: it keeps running and its records
\* reach the registered consumers.
C10_FallbackThenDemoEmits ==
    [][/\ fallbacks' <= 1
       /\ fallbacks' # fallbacks =>
             (srcpc' = "demo" /\ UNCHANGED <<browser_clients, link, pc>>)
       /\ (fallbacks = 1 /\ Broadcasts(Source)) =>
             /\ srcpc' = "demo"
             /\ Last(calls'[Source]).data.demo
             /\ FannedOut(Source)]_vars

\* C11: a broadcast made while every registered consumer's send succeeds
\* delivers one and the same wire text, the serialization of the record handed
\* in, to all of them.
C11_SameRecordToAll ==
    [][\A w \in Callers :
          (Broadcasts(w) /\ OpenConsumers # {} /\ ClosedConsumers = {}) =>
              \E m \in {json_dumps(Last(calls'[w]).data)} :
                  \A b \in OpenConsumers : received'[b] = Append(received[b], m)]_vars

\* The time value a record carries.
Stamp(d) ==
    IF "received_at" \in d.keys THEN d.received_at
    ELSE IF "timestamp" \in d.keys THEN d.timestamp
    ELSE 0

DecodedAs(raw, now, d) ==
    LET j == json_loads(raw) IN
    IF j.ok
    THEN /\ d.type = (IF "type" \in j.value.keys THEN j.value.type ELSE "sensor")
         /\ d.received_at = (IF "received_at" \in j.value.keys
                             THEN j.value.received_at ELSE now)
    ELSE d.type = "log" /\ d.timestamp = now

RECURSIVE AckCount(_)
AckCount(q) ==
    IF q = <<>> THEN 0
    ELSE (IF IsAck(Head(q)) THEN 1 ELSE 0) + AckCount(Tail(q))

\* C13: once ws_handler has classified a connection, no step changes its role:
\* is_device keeps its value, the connection enters neither set, it is sent no
\* further acknowledgement, it causes no DeviceConnected broadcast and its
\* handler never waits for a first message again.
C13_RoleSetOnce ==
    [][\A c \in Conns :
          pc[c] \in {"ack_first", "loop", "done"} =>
              /\ is_device'[c] = is_device[c]
              /\ c \in browser_clients' => c \in browser_clients
              /\ c \in device_clients' => c \in device_clients
              /\ pc'[c] \in {"ack_first", "loop", "done"}
              /\ AckCount(received'[c]) = AckCount(received[c])
              /\ Broadcasts(c) => Last(calls'[c]).data.type # "device_connected"]_vars

\* A producer sent the handshake again after its classification (it was decoded
\* as data), and a browser sent a message after its classification.
C13_Witness ==
    /\ \E c \in Conns :
          /\ is_device[c] /\ calls[c] # <<>>
          /\ Last(calls[c]).data.type = "hello"
    /\ \E c \in Conns : ~is_device[c] /\ ignored[c]

\* C14: a connection whose handler has ended is in neither browser_clients nor
\* device_clients, however it ended.
C14_EndedMeansUnregistered ==
    \A c \in Conns :
        pc[c] = "done" => (c \notin browser_clients /\ c \notin device_clients)

\* One handler ended on its peer's disconnect after the connection had been
\* registered as a browser, another on a fault raised while processing a
\* producer's message.
C14_Witness ==
    \E c, d \in Conns :
        /\ pc[c] = "done" /\ fault[c] = "ConnectionClosed" /\ received[c] # <<>>
        /\ pc[d] = "done" /\ fault[d] = "UnboundLocalError" /\ is_device[d]

\* C15: a message received from a browser after its classification changes
\* neither set, sends nothing and causes no broadcast; a call made from the
\* receive loop is made for a producer.
C15_ConsumerMessagesDropped ==
    [][\A c \in Conns :
          pc[c] = "loop" =>
              /\ Broadcasts(c) => is_device[c]
              /\ ~is_device[c] =>
                    \A raw \in Lines, now \in Times :
                        LoopMessage(c, raw, now) =>
                            UNCHANGED <<browser_clients, device_clients, received,
                                        calls, pc, is_device>>]_vars

\* A registered browser, still connected, had a message read and dropped.
C15_Witness ==
    \E c \in Conns :
        /\ ignored[c] /\ ~is_device[c]
        /\ c \in browser_clients /\ link[c] = "open" /\ pc[c] = "loop"

\* C16: the demo source, once started, never ends: each turn of its loop hands
\* one synthetic record to the broadcaster, increases t by one and leaves the
\* generator running.
C16_DemoRunsForever ==
    [][srcpc = "demo" =>
          /\ srcpc' = "demo"
          /\ Broadcasts(Source) =>
                (t' = t + 1 /\ Last(calls'[Source]).data.demo)]_vars

\* C17: a broadcast made while the registry is empty returns normally, sends
\* nothing and leaves the registry as it was.
C17_EmptyRegistryNoOp ==
    [][\A w \in Callers :
          (Broadcasts(w) /\ browser_clients = {}) =>
              /\ Last(calls'[w]).exc = "none"
              /\ UNCHANGED <<browser_clients, received>>]_vars

\* C18: while two producers are connected, a non-empty message of either is
\* broadcast to the registered consumers and its sender stays a producer.
C18_BothProducersRelayed ==
    [][\A c \in Conns :
          (pc[c] = "loop" /\ is_device[c] /\ device_clients \ {c} # {}) =>
              \A raw \in Lines, now \in Times :
                  (strip(raw) # <<>> /\ LoopMessage(c, raw, now)) =>
                      /\ Broadcasts(c) /\ FannedOut(c)
                      /\ c \in device_clients' /\ pc'[c] = "loop"]_vars

\* C19: no connection is in both sets, and a connection classified as a
\* producer is sent nothing, by its handler or by a broadcast.
C19_ProducerNeverRecipient ==
    /\ browser_clients \cap device_clients = {}
    /\ \A c \in Conns : is_device[c] => received[c] = <<>>
    /\ \A w \in Callers : \A i \in 1..Len(calls[w]) :
          \A c \in calls[w][i].sent_to : ~is_device[c]

\* A producer and a browser are registered and connected at the same time.
C19_Witness ==
    \E c \in device_clients, b \in browser_clients :
        /\ link[c] = "open" /\ link[b] = "open"
        /\ is_device[c] /\ received[b] # <<>>

\* C20: a broadcast removes from browser_clients the recipients whose send
\* failed (their link is closed) and no others (the caller's own handler
\* aside), and leaves the other connections' membership of device_clients
\* alone.
C20_RemovesExactlyFailed ==
    [][\A w \in Callers :
          Broadcasts(w) =>
              /\ \A b \in ClosedConsumers : b \notin browser_clients'
              /\ \A b \in OpenConsumers \ {w} : b \in browser_clients'
              /\ device_clients' \ {w} = device_clients \ {w}]_vars

====
